---- MODULE Spec2Model ----
(***************************************************************************)
(* A model of pdf-zipper.py: the driver (main), the assembler              *)
(* (convert_directory_to_pdf), the block writer (CodePDF.write_file,       *)
(* CodePDF.write_code_block) and the library calls they rest on            *)
(* (textwrap.wrap, str.splitlines, os.walk, os.path.abspath, FPDF.cell,    *)
(* FPDF.ln, FPDF.add_page).                                                *)
(*                                                                         *)
(* The program is sequential; pc is its position.  One run is one          *)
(* behaviour: the inputs (command line, file system, font, output path)    *)
(* are chosen in the initial state and never change.                       *)
(*                                                                         *)
(* Text is kept run-length encoded: a text is a sequence of runs           *)
(* [c |-> character, n |-> count], adjacent runs having different          *)
(* characters.  A character is a one-character string.  The alphabet of    *)
(* file contents is the space, the newline and non-blank characters other  *)
(* than the hyphen and the tab (textwrap treats those two specially).      *)
(***************************************************************************)
EXTENDS Integers, Sequences, FiniteSets, TLC

(***************************************************************************)
(* Text                                                                    *)
(***************************************************************************)
Run(c, n) == [c |-> c, n |-> n]

\* len(s)
RECURSIVE TLen(_)
TLen(t) == IF t = <<>> THEN 0 ELSE t[1].n + TLen(Tail(t))

\* s + t
TCat(a, b) ==
  IF a = <<>> THEN b
  ELSE IF b = <<>> THEN a
  ELSE IF a[Len(a)].c = b[1].c
       THEN SubSeq(a, 1, Len(a) - 1) \o <<Run(b[1].c, a[Len(a)].n + b[1].n)>> \o Tail(b)
       ELSE a \o b

\* s[:k]
RECURSIVE TTake(_, _)
TTake(t, k) ==
  IF k <= 0 \/ t = <<>> THEN <<>>
  ELSE IF t[1].n <= k THEN TCat(<<t[1]>>, TTake(Tail(t), k - t[1].n))
  ELSE <<Run(t[1].c, k)>>

\* s[k:]
RECURSIVE TDrop(_, _)
TDrop(t, k) ==
  IF k <= 0 \/ t = <<>> THEN t
  ELSE IF t[1].n <= k THEN TDrop(Tail(t), k - t[1].n)
  ELSE <<Run(t[1].c, t[1].n - k)>> \o Tail(t)

\* The text spelled by a sequence of characters.
RECURSIVE Str(_)
Str(cs) == IF cs = <<>> THEN <<>> ELSE TCat(<<Run(cs[1], 1)>>, Str(Tail(cs)))

\* ''.join(parts)
RECURSIVE Join(_)
Join(parts) == IF parts = <<>> THEN <<>> ELSE TCat(parts[1], Join(Tail(parts)))

\* s.strip() == ''  (the only whitespace inside a line is the space)
IsBlank(t) == \A k \in 1..Len(t) : t[k].c = " "

\* s.startswith(' ')
StartsWithSpace(t) == t # <<>> /\ t[1].c = " "

\* The characters that occur in s.
CharsOf(t) == {t[k].c : k \in 1..Len(t)}

\* str.splitlines(): the lines between newlines; a final newline opens no
\* further line.  cur is the line being read.
RECURSIVE SplitFrom(_, _)
SplitFrom(t, cur) ==
  IF t = <<>> THEN (IF cur = <<>> THEN <<>> ELSE <<cur>>)
  ELSE IF t[1].c = "\n"
       THEN <<cur>> \o [j \in 1..(t[1].n - 1) |-> <<>>] \o SplitFrom(Tail(t), <<>>)
       ELSE SplitFrom(Tail(t), TCat(cur, <<t[1]>>))

SplitLines(t) == SplitFrom(t, <<>>)

(***************************************************************************)
(* textwrap.wrap(line, width, subsequent_indent): TextWrapper with its     *)
(* defaults (initial_indent '', drop_whitespace, break_long_words).        *)
(***************************************************************************)
\* TextWrapper._split: the maximal runs of whitespace and of non-whitespace.
RECURSIVE SplitChunks(_, _)
SplitChunks(t, cur) ==
  IF t = <<>> THEN (IF cur = <<>> THEN <<>> ELSE <<cur>>)
  ELSE IF cur = <<>> THEN SplitChunks(Tail(t), <<t[1]>>)
  ELSE IF (t[1].c = " ") = IsBlank(cur)
       THEN SplitChunks(Tail(t), TCat(cur, <<t[1]>>))
       ELSE <<cur>> \o SplitChunks(Tail(t), <<t[1]>>)

\* The inner loop of _wrap_chunks: chunks go on the current line while they fit.
RECURSIVE Fill(_, _, _, _)
Fill(chs, cur_line, cur_len, width) ==
  IF chs # <<>> /\ cur_len + TLen(chs[1]) <= width
  THEN Fill(Tail(chs), Append(cur_line, chs[1]), cur_len + TLen(chs[1]), width)
  ELSE [chunks |-> chs, cur_line |-> cur_line, cur_len |-> cur_len]

\* _handle_long_word: the next chunk fits on no line, so a piece of it is cut off.
HandleLongWord(f, width) ==
  LET space_left == IF width < 1 THEN 1 ELSE width - f.cur_len
      chunk == f.chunks[1]
  IN  [chunks |-> <<TDrop(chunk, space_left)>> \o Tail(f.chunks),
       cur_line |-> Append(f.cur_line, TTake(chunk, space_left))]

\* One pass of the outer loop of _wrap_chunks: the chunks left and the lines so far.
WrapPass(chs, lns, total_width, subsequent_indent) ==
  LET indent == IF lns # <<>> THEN subsequent_indent ELSE <<>>
      width == total_width - TLen(indent)
      chs1 == IF IsBlank(chs[1]) /\ lns # <<>> THEN Tail(chs) ELSE chs
      f == Fill(chs1, <<>>, 0, width)
      g == IF f.chunks # <<>> /\ TLen(f.chunks[1]) > width
           THEN HandleLongWord(f, width)
           ELSE [chunks |-> f.chunks, cur_line |-> f.cur_line]
      cl == IF g.cur_line # <<>> /\ IsBlank(g.cur_line[Len(g.cur_line)])
            THEN SubSeq(g.cur_line, 1, Len(g.cur_line) - 1)
            ELSE g.cur_line
  IN  [chunks |-> g.chunks,
       lines |-> IF cl # <<>> THEN Append(lns, TCat(indent, Join(cl))) ELSE lns]

(***************************************************************************)
(* Names and paths.  A name is a string; Spell gives its characters, which *)
(* is what str.endswith and sorted() look at.  A path is the sequence of   *)
(* its components below the file system root.                              *)
(***************************************************************************)
Spell(name) ==
  CASE
       name = "proj" -> <<"p", "r", "o", "j">>
    [] name = "opt" -> <<"o", "p", "t">>
    [] name = "lib" -> <<"l", "i", "b">>
    [] name = "src" -> <<"s", "r", "c">>
    [] name = "a.py" -> <<"a", ".", "p", "y">>
    [] name = "B.py" -> <<"B", ".", "p", "y">>
    [] name = "notes.txt" -> <<"n", "o", "t", "e", "s", ".", "t", "x", "t">>
    [] name = "pdf-zipper.py" -> <<"p", "d", "f", "-", "z", "i", "p", "p", "e", "r", ".", "p", "y">>
    [] name = "c.md" -> <<"c", ".", "m", "d">>
    [] OTHER -> <<name>>

\* The characters of the names, in code point order (what sorted() compares).
CodePoints ==
  <<" ", "-", ".", "B", "a", "b", "c", "d", "e", "f", "i", "j", "l", "m", "n", "o",
    "p", "r", "s", "t", "x", "y", "z">>

Ord(c) == CHOOSE k \in 1..Len(CodePoints) : CodePoints[k] = c

\* a < b for two strings of characters, as Python compares str.
RECURSIVE StrLess(_, _)
StrLess(a, b) ==
  IF b = <<>> THEN FALSE
  ELSE IF a = <<>> THEN TRUE
  ELSE IF a[1] = b[1] THEN StrLess(Tail(a), Tail(b))
  ELSE Ord(a[1]) < Ord(b[1])

NameLess(m, n) == StrLess(Spell(m), Spell(n))

\* sorted(names) of a sequence of distinct names.
RECURSIVE Sorted(_)
Sorted(names) ==
  IF names = <<>> THEN <<>>
  ELSE LET k == CHOOSE k \in 1..Len(names) :
                  \A j \in 1..Len(names) : j # k => NameLess(names[k], names[j])
       IN  <<names[k]>> \o Sorted([j \in 1..(Len(names) - 1) |->
                                     IF j < k THEN names[j] ELSE names[j + 1]])

\* file.endswith(ext)
EndsWith(s, ext) ==
  Len(ext) <= Len(s) /\ SubSeq(s, Len(s) - Len(ext) + 1, Len(s)) = ext

\* ext.strip() on the characters of an extension argument
RECURSIVE LStrip(_)
LStrip(s) == IF s # <<>> /\ s[1] = " " THEN LStrip(Tail(s)) ELSE s

RECURSIVE RStrip(_)
RStrip(s) ==
  IF s # <<>> /\ s[Len(s)] = " " THEN RStrip(SubSeq(s, 1, Len(s) - 1)) ELSE s

Strip(s) == RStrip(LStrip(s))

\* os.path.normpath on the components of an absolute path
RECURSIVE NormFrom(_, _)
NormFrom(p, acc) ==
  IF p = <<>> THEN acc
  ELSE IF p[1] = "." THEN NormFrom(Tail(p), acc)
  ELSE IF p[1] = ".."
       THEN NormFrom(Tail(p), IF acc = <<>> THEN acc ELSE SubSeq(acc, 1, Len(acc) - 1))
       ELSE NormFrom(Tail(p), Append(acc, p[1]))

\* os.path.abspath(os.path.join(base, rel)) for an absolute base
AbsJoin(base, rel) == NormFrom(base \o rel, <<>>)

\* os.path.relpath(full_path, directory) for a path below directory
RelPath(full_path, directory) == SubSeq(full_path, Len(directory) + 1, Len(full_path))

\* x in list
InList(x, list) == \E k \in 1..Len(list) : list[k] = x

get_file_extensions ==
  <<<<".", "p", "y">>,
     <<".", "j", "s">>,
     <<".", "t", "s">>,
     <<".", "j", "s", "x">>,
     <<".", "t", "s", "x">>,
     <<".", "c", "p", "p">>,
     <<".", "c">>,
     <<".", "h">>,
     <<".", "h", "p", "p">>,
     <<".", "h", "t", "m", "l">>,
     <<".", "c", "s", "s">>,
     <<".", "j", "a", "v", "a">>,
     <<".", "g", "o">>,
     <<".", "r", "s">>,
     <<".", "p", "h", "p">>,
     <<".", "r", "b">>,
     <<".", "m", "d">>,
     <<".", "j", "s", "o", "n">>,
     <<".", "y", "m", "l">>,
     <<".", "y", "a", "m", "l">>,
     <<".", "s", "h">>,
     <<".", "s", "q", "l">>,
     <<".", "x", "m", "l">>>>

(***************************************************************************)
(* Program constants                                                       *)
(***************************************************************************)
\* FPDF(orientation="L", unit="mm", format="A4"): the page is 210 mm high
\* (210.0016 in the library; the cursor only takes integer values, so every
\* comparison below has the same outcome with 210).
PageHeight == 210
Margin == 10
TitleHeight == 10
LineHeight == 4
HeaderHeight == 7
HeaderGap == 1
FileGap == 5
SummaryHeight == 5
PageBreakLookahead == 40
TruncateThreshold == 100000
TruncateKeep == 50000
DefaultWidth == 110

\* line 172: the marker, between two pairs of newlines
MarkerLine ==
  Str(<<".", ".", ".", " ", "[", "F", "i", "l", "e", " ", "t", "r", "u", "n", "c", "a", "t", "e", "d", " ", "d", "u", "e", " ", "t", "o", " ", "s", "i", "z", "e", "]", " ", ".", ".", ".">>)

TruncationMarker == <<Run("\n", 2)>> \o MarkerLine \o <<Run("\n", 2)>>

\* The four-space prefix of continuation lines.
ContinuationIndent == <<Run(" ", 4)>>

(***************************************************************************)
(* State                                                                   *)
(***************************************************************************)
VARIABLES
  caller,           \* "main": run from the command line; "api": convert_directory_to_pdf called directly
  argv,             \* the parsed command line: [isdir, exclude, extensions]
  fs,               \* the file system: file path |-> [code, readable]
  scan_order,       \* the order in which the file system enumerates names
  script_path,      \* os.path.abspath(__file__)
  font,             \* "cached", "fetched" (download succeeds) or "unavailable"
  output_writable,  \* whether pdf.output(output_path) succeeds
  line_width,       \* args.width, then CodePDF.line_width
  pc,
  extensions,       \* [given, list]: None or a list of extensions
  exclude,          \* [given, list]: None or a list of paths
  walk_stack,       \* the directories os.walk has still to yield
  files_to_process,
  skipped_files,
  processed_files,
  file_index,       \* the position of the loop over files_to_process
  code,
  lines,            \* the lines of write_code_block still to be written
  chunks,           \* textwrap: the chunks still to be placed
  wrapped_lines,
  wrap_index,       \* the position of the loop over wrapped_lines
  rows,             \* the cells and line breaks written to the document
  page,
  y,                \* the vertical cursor, FPDF.get_y()
  log,              \* what was printed
  saved,            \* the document was written to output_path
  exit_code

inputs == <<caller, argv, fs, scan_order, script_path, font, output_writable, line_width>>

vars == <<caller, argv, fs, scan_order, script_path, font, output_writable, line_width,
          pc, extensions, exclude, walk_stack, files_to_process, skipped_files,
          processed_files, file_index, code, lines, chunks, wrapped_lines, wrap_index,
          rows, page, y, log, saved, exit_code>>

\* os.path.abspath(args.directory)
directory == <<"proj">>

None == [given |-> FALSE, list |-> <<>>]
Some(list) == [given |-> TRUE, list |-> list]

Msg(msg, arg) == [msg |-> msg, arg |-> arg]

(***************************************************************************)
(* The document: FPDF.cell, FPDF.ln                                        *)
(***************************************************************************)
\* Where cell(0, h, ...) draws: the automatic page break comes first when the
\* cell would pass the bottom margin.
CellPos(pg, yy, h) ==
  IF yy + h > PageHeight - Margin
  THEN [page |-> pg + 1, y |-> Margin]
  ELSE [page |-> pg, y |-> yy]

Row(kind, entry, text, pos) ==
  [kind |-> kind, entry |-> entry, text |-> text, page |-> pos.page, y |-> pos.y]

\* cell(0, h, text, ln=1): the row is drawn and the cursor goes below it.
Cell(kind, entry, text, h) ==
  LET pos == CellPos(page, y, h)
  IN  /\ rows' = Append(rows, Row(kind, entry, text, pos))
      /\ page' = pos.page
      /\ y' = pos.y + h

(***************************************************************************)
(* main, lines 204-232                                                     *)
(***************************************************************************)
\* lines 213-214: every extension gets its leading dot
NormalizeExtension(ext) ==
  IF Strip(ext) # <<>> /\ Strip(ext)[1] = "." THEN Strip(ext) ELSE <<".">> \o Strip(ext)

\* lines 217-227: absolute paths are taken as given, relative ones are resolved
\* against the directory
ResolveExclude(raw) == IF raw.abs THEN raw.path ELSE AbsJoin(directory, raw.path)

\* lines 229-232
WithScript(list) == IF InList(script_path, list) THEN list ELSE Append(list, script_path)

ParseArgs ==
  /\ pc = "main"
  /\ IF ~argv.isdir
     THEN /\ log' = Append(log, Msg("Error: not a directory", directory))
          /\ exit_code' = 1
          /\ pc' = "exit"
          /\ UNCHANGED <<extensions, exclude>>
     ELSE /\ extensions' =
               IF argv.extensions.given /\ argv.extensions.list # <<>>
               THEN Some([k \in 1..Len(argv.extensions.list) |->
                            NormalizeExtension(argv.extensions.list[k])])
               ELSE None
          /\ exclude' = Some(WithScript([k \in 1..Len(argv.exclude) |->
                                           ResolveExclude(argv.exclude[k])]))
          /\ pc' = "convert"
          /\ UNCHANGED <<log, exit_code>>
  /\ UNCHANGED <<inputs, walk_stack, files_to_process, skipped_files, processed_files,
                 file_index, code, lines, chunks, wrapped_lines, wrap_index, rows,
                 page, y, saved>>

(***************************************************************************)
(* convert_directory_to_pdf, lines 118-136                                 *)
(***************************************************************************)
\* A variant that takes the caller's list as it is.
ExcludeListAsGiven(excl) == IF excl.given THEN excl.list ELSE <<>>

\* lines 121-129: the exclusion list used by the traversal
ExcludeList(excl) ==
  LET list == IF excl.given THEN excl.list ELSE <<>>
  IN  IF InList(script_path, list) THEN list ELSE Append(list, script_path)

Setup ==
  /\ pc = "convert"
  /\ extensions' = IF extensions.given THEN extensions ELSE Some(get_file_extensions)
  /\ exclude' = Some(ExcludeList(exclude))
  /\ IF font = "unavailable"
     THEN \* ensure_font_exists: sys.exit(1)
          /\ log' = Append(log, Msg("Error downloading font", <<>>))
          /\ exit_code' = 1
          /\ pc' = "exit"
          /\ UNCHANGED <<walk_stack, page, y>>
     ELSE \* CodePDF.__init__: the first page, the title and the line break below it
          /\ page' = 1
          /\ y' = Margin + TitleHeight
          /\ walk_stack' = <<directory>>
          /\ pc' = "walk"
          /\ log' = IF font = "fetched" THEN Append(log, Msg("Font downloaded", <<>>)) ELSE log
          /\ UNCHANGED exit_code
  /\ processed_files' = 0
  /\ skipped_files' = 0
  /\ files_to_process' = <<>>
  /\ UNCHANGED <<inputs, file_index, code, lines, chunks, wrapped_lines, wrap_index,
                 rows, saved>>

(***************************************************************************)
(* The traversal, lines 138-161                                            *)
(***************************************************************************)
IsBelow(p, dir) == Len(p) > Len(dir) /\ SubSeq(p, 1, Len(dir)) = dir

\* The files and the subdirectories of a directory, in the order the file system
\* enumerates them (os.walk passes that order on).
Listed(names) == SelectSeq(scan_order, LAMBDA n : n \in names)

FilesIn(dir) ==
  Listed({p[Len(dir) + 1] : p \in {q \in DOMAIN fs : IsBelow(q, dir) /\ Len(q) = Len(dir) + 1}})

DirsIn(dir) ==
  Listed({p[Len(dir) + 1] : p \in {q \in DOMAIN fs : IsBelow(q, dir) /\ Len(q) > Len(dir) + 1}})

\* line 142: any(file.endswith(ext) for ext in extensions)
MatchesExtension(file, exts) == \E k \in 1..Len(exts) : EndsWith(Spell(file), exts[k])

\* A variant that looks the relative path up in the list of absolute paths.
ExcludedByRelativePath(full_path, excl) == InList(RelPath(full_path, directory), excl)

\* line 146: full_path in exclude
Excluded(full_path, excl) == InList(full_path, excl)

\* lines 141-158 for the files of one directory: acc is [entries, skipped]
RECURSIVE CollectFiles(_, _, _, _, _)
CollectFiles(files, root, exts, excl, acc) ==
  IF files = <<>> THEN acc
  ELSE LET file == files[1]
           full_path == AbsJoin(root, <<file>>)
           relative_path == RelPath(full_path, directory)
           next ==
             IF ~MatchesExtension(file, exts) THEN acc
             ELSE IF Excluded(full_path, excl) THEN [acc EXCEPT !.skipped = @ + 1]
             ELSE IF full_path = script_path THEN [acc EXCEPT !.skipped = @ + 1]
             ELSE [acc EXCEPT !.entries =
                     Append(@, [full_path |-> full_path, relative_path |-> relative_path])]
       IN  CollectFiles(Tail(files), root, exts, excl, next)

\* One directory yielded by os.walk: its files in sorted order, then its
\* subdirectories are walked, before the directories that were already waiting.
WalkDir ==
  /\ pc = "walk"
  /\ walk_stack # <<>>
  /\ LET root == Head(walk_stack)
         dirs == DirsIn(root)
         acc == CollectFiles(Sorted(FilesIn(root)), root, extensions.list, exclude.list,
                             [entries |-> files_to_process, skipped |-> skipped_files])
         stack == [k \in 1..Len(dirs) |-> Append(root, dirs[k])] \o Tail(walk_stack)
     IN  /\ files_to_process' = acc.entries
         /\ skipped_files' = acc.skipped
         /\ walk_stack' = stack
         /\ IF stack = <<>>
            THEN /\ log' = Append(log, Msg("Found files to process", <<>>))
                 /\ file_index' = 1
                 /\ pc' = "loop"
            ELSE UNCHANGED <<log, file_index, pc>>
  /\ UNCHANGED <<inputs, extensions, exclude, processed_files, code, lines, chunks,
                 wrapped_lines, wrap_index, rows, page, y, saved, exit_code>>

(***************************************************************************)
(* The loop over the files, lines 164-177                                  *)
(***************************************************************************)
\* A variant that truncates every file longer than what is kept.
TruncateAboveKeep(text) ==
  IF TLen(text) > TruncateKeep
  THEN TCat(TTake(text, TruncateKeep), TruncationMarker)
  ELSE text

\* lines 171-172
Truncate(text) ==
  IF TLen(text) > TruncateThreshold
  THEN TCat(TTake(text, TruncateKeep), TruncationMarker)
  ELSE text

\* lines 165-172: open and read the file; an error goes to the handler of line 176
ReadFile ==
  /\ pc = "loop"
  /\ file_index <= Len(files_to_process)
  /\ LET full_path == files_to_process[file_index].full_path
     IN  /\ log' = Append(log, Msg("Processing", files_to_process[file_index].relative_path))
         /\ IF fs[full_path].readable
            THEN /\ code' = Truncate(fs[full_path].code)
                 /\ pc' = "write_file"
            ELSE /\ pc' = "except"
                 /\ UNCHANGED code
  /\ UNCHANGED <<inputs, extensions, exclude, walk_stack, files_to_process, skipped_files,
                 processed_files, file_index, lines, chunks, wrapped_lines, wrap_index,
                 rows, page, y, saved, exit_code>>

\* CodePDF.write_file, lines 94-101, and the start of write_code_block, line 63
\* A variant that looks ahead only as far as the bottom margin.
NeedsNewPageAtMargin(yy) == yy > PageHeight - Margin

\* line 94
NeedsNewPage(yy) == yy > PageHeight - PageBreakLookahead

WriteHeader ==
  /\ pc = "write_file"
  /\ LET start == IF NeedsNewPage(y) THEN [page |-> page + 1, y |-> Margin]
                  ELSE [page |-> page, y |-> y]
         pos == CellPos(start.page, start.y, HeaderHeight)
     IN  /\ rows' = Append(rows, Row("header", file_index, <<>>, pos))
         /\ page' = pos.page
         /\ y' = pos.y + HeaderHeight + HeaderGap
  /\ lines' = SplitLines(code)
  /\ pc' = "line"
  /\ UNCHANGED <<inputs, extensions, exclude, walk_stack, files_to_process, skipped_files,
                 processed_files, file_index, code, chunks, wrapped_lines, wrap_index,
                 log, saved, exit_code>>

\* write_code_block, lines 65-75 and 87-90: one line of the file
WriteLine ==
  /\ pc = "line"
  /\ lines # <<>>
  /\ LET line == Head(lines)
     IN  IF IsBlank(line)
         THEN \* lines 67-69: self.ln(line_height)
              /\ rows' = Append(rows, Row("blank", file_index, <<>>, [page |-> page, y |-> y]))
              /\ y' = y + LineHeight
              /\ lines' = Tail(lines)
              /\ UNCHANGED <<page, pc, chunks, wrapped_lines, wrap_index>>
         ELSE IF TLen(line) > line_width
         THEN \* lines 72-75: textwrap.wrap raises ValueError for a width <= 0
              IF line_width <= 0
              THEN /\ pc' = "except"
                   /\ UNCHANGED <<rows, page, y, lines, chunks, wrapped_lines, wrap_index>>
              ELSE /\ chunks' = SplitChunks(line, <<>>)
                   /\ wrapped_lines' = <<>>
                   /\ pc' = "wrap"
                   /\ UNCHANGED <<rows, page, y, lines, wrap_index>>
         ELSE \* lines 87-90
              /\ Cell("line", file_index, line, LineHeight)
              /\ lines' = Tail(lines)
              /\ UNCHANGED <<pc, chunks, wrapped_lines, wrap_index>>
  /\ UNCHANGED <<inputs, extensions, exclude, walk_stack, files_to_process, skipped_files,
                 processed_files, file_index, code, log, saved, exit_code>>

\* line 75: subsequent_indent
SubsequentIndent(line) == IF StartsWithSpace(line) THEN ContinuationIndent ELSE <<>>

\* One pass of the loop of textwrap.wrap over the line being wrapped
Wrap ==
  /\ pc = "wrap"
  /\ LET w == WrapPass(chunks, wrapped_lines, line_width, SubsequentIndent(Head(lines)))
     IN  /\ chunks' = w.chunks
         /\ wrapped_lines' = w.lines
         /\ IF w.chunks = <<>>
            THEN /\ wrap_index' = 0
                 /\ pc' = "emit"
            ELSE UNCHANGED <<wrap_index, pc>>
  /\ UNCHANGED <<inputs, extensions, exclude, walk_stack, files_to_process, skipped_files,
                 processed_files, file_index, code, lines, rows, page, y, log, saved,
                 exit_code>>

\* lines 78-86: one wrapped line is written; after the last one the line is done
EmitWrapped ==
  /\ pc = "emit"
  /\ IF wrap_index < Len(wrapped_lines)
     THEN /\ Cell(IF wrap_index = 0 THEN "line" ELSE "continuation", file_index,
                  wrapped_lines[wrap_index + 1], LineHeight)
          /\ wrap_index' = wrap_index + 1
          /\ UNCHANGED <<lines, pc>>
     ELSE /\ lines' = Tail(lines)
          /\ pc' = "line"
          /\ UNCHANGED <<rows, page, y, wrap_index>>
  /\ UNCHANGED <<inputs, extensions, exclude, walk_stack, files_to_process, skipped_files,
                 processed_files, file_index, code, chunks, wrapped_lines, log, saved,
                 exit_code>>

\* The end of write_file, line 106, and line 175
EndFile ==
  /\ pc = "line"
  /\ lines = <<>>
  /\ rows' = Append(rows, Row("spacer", file_index, <<>>, [page |-> page, y |-> y]))
  /\ y' = y + FileGap
  /\ processed_files' = processed_files + 1
  /\ file_index' = file_index + 1
  /\ pc' = "loop"
  /\ UNCHANGED <<inputs, extensions, exclude, walk_stack, files_to_process, skipped_files,
                 code, lines, chunks, wrapped_lines, wrap_index, page, log, saved,
                 exit_code>>

\* lines 176-177: the error is printed and the loop goes on
HandleError ==
  /\ pc = "except"
  /\ log' = Append(log, Msg("Error processing", files_to_process[file_index].relative_path))
  /\ file_index' = file_index + 1
  /\ pc' = "loop"
  /\ UNCHANGED <<inputs, extensions, exclude, walk_stack, files_to_process, skipped_files,
                 processed_files, code, lines, chunks, wrapped_lines, wrap_index, rows,
                 page, y, saved, exit_code>>

(***************************************************************************)
(* The end of the run, lines 179-193 and 244                               *)
(***************************************************************************)
\* lines 180-183: the summary page
Summary ==
  /\ pc = "loop"
  /\ file_index > Len(files_to_process)
  /\ LET first == [page |-> page + 1, y |-> Margin]
         second == CellPos(first.page, first.y + SummaryHeight, SummaryHeight)
     IN  /\ rows' = rows \o <<Row("summary", 0, <<>>, first),
                              Row("summary", 0, <<>>, second)>>
         /\ page' = second.page
         /\ y' = second.y + SummaryHeight
  /\ pc' = "output"
  /\ UNCHANGED <<inputs, extensions, exclude, walk_stack, files_to_process, skipped_files,
                 processed_files, file_index, code, lines, chunks, wrapped_lines,
                 wrap_index, log, saved, exit_code>>

\* lines 186-193: the error of pdf.output is printed, and processed_files returned
Save ==
  /\ pc = "output"
  /\ IF output_writable
     THEN /\ saved' = TRUE
          /\ log' = Append(log, Msg("PDF saved", <<>>))
     ELSE /\ log' = Append(log, Msg("Error saving PDF", <<>>))
          /\ UNCHANGED saved
  /\ pc' = "return"
  /\ UNCHANGED <<inputs, extensions, exclude, walk_stack, files_to_process, skipped_files,
                 processed_files, file_index, code, lines, chunks, wrapped_lines,
                 wrap_index, rows, page, y, exit_code>>

\* main, line 244: the call returned, so the run is reported as a success
Report ==
  /\ pc = "return"
  /\ caller = "main"
  /\ log' = Append(log, Msg("Successfully processed", <<>>))
  /\ pc' = "exit"
  /\ UNCHANGED <<inputs, extensions, exclude, walk_stack, files_to_process, skipped_files,
                 processed_files, file_index, code, lines, chunks, wrapped_lines,
                 wrap_index, rows, page, y, saved, exit_code>>

Next ==
  \/ ParseArgs
  \/ Setup
  \/ WalkDir
  \/ ReadFile
  \/ WriteHeader
  \/ WriteLine
  \/ Wrap
  \/ EmitWrapped
  \/ EndFile
  \/ HandleError
  \/ Summary
  \/ Save
  \/ Report

(***************************************************************************)
(* Initial states.  The program state is the same in all of them; the      *)
(* specifications differ in the inputs they range over.                    *)
(***************************************************************************)
Start ==
  /\ pc = IF caller = "main" THEN "main" ELSE "convert"
  /\ walk_stack = <<>>
  /\ files_to_process = <<>>
  /\ skipped_files = 0
  /\ processed_files = 0
  /\ file_index = 0
  /\ code = <<>>
  /\ lines = <<>>
  /\ chunks = <<>>
  /\ wrapped_lines = <<>>
  /\ wrap_index = 0
  /\ rows = <<>>
  /\ page = 0
  /\ y = 0
  /\ log = <<>>
  /\ saved = FALSE
  /\ exit_code = 0

File(text, readable) == [code |-> text, readable |-> readable]

P_a == <<"proj", "a.py">>
P_B == <<"proj", "B.py">>
P_notes == <<"proj", "notes.txt">>
P_lib_a == <<"proj", "lib", "a.py">>
P_src_script == <<"proj", "src", "pdf-zipper.py">>
P_opt_script == <<"opt", "pdf-zipper.py">>

NameOrder == <<"B.py", "a.py", "lib", "notes.txt", "pdf-zipper.py", "src">>
Reverse(q) == [k \in 1..Len(q) |-> q[Len(q) + 1 - k]]

NoArgs == [isdir |-> TRUE, exclude |-> <<>>, extensions |-> None]

\* Bounds of the inputs
MaxLineLen == 6
MaxWidth == 7
BlankLines == 37

LongWord == <<Run("a", 300)>>

(* ---- Spec: whole runs over file contents, read errors, widths and the ---- *)
(* ---- outcome of writing the document                                  ---- *)
Contents ==
  { <<>>,
    Str(<<"a", "b", " ", "c", "d">>),
    <<Run(" ", 2), Run("a", 30)>>,
    <<Run("\n", BlankLines)>>,
    <<Run("\n", BlankLines + 8), Run("a", 2)>>,
    LongWord,
    <<Run(" ", TruncateThreshold - 2), Run("\n", 1), Run("b", 1)>>,
    <<Run(" ", TruncateThreshold - 1), Run("\n", 1), Run("b", 1)>>,
    <<Run("a", 1), Run("\n", 1), Run(" ", TruncateKeep + 10000), Run("\n", 1),
      Run("b", TruncateThreshold - 10003 - 1)>> }

RunWidths == {-1, 0, 20, DefaultWidth}

Init ==
  /\ caller = "main"
  /\ argv \in {NoArgs, [NoArgs EXCEPT !.isdir = FALSE]}
  /\ fs \in [{P_a, P_lib_a} -> {File(t, r) : t \in Contents, r \in BOOLEAN}]
  /\ scan_order = NameOrder
  /\ script_path = P_opt_script
  /\ font \in {"cached", "fetched", "unavailable"}
  /\ output_writable \in BOOLEAN
  /\ line_width \in RunWidths
  /\ extensions = None
  /\ exclude = None
  /\ (~argv.isdir \/ font # "cached") =>
        /\ output_writable /\ line_width = DefaultWidth
        /\ \A p \in DOMAIN fs : fs[p] = File(<<>>, TRUE)
  /\ Start

Spec == Init /\ [][Next]_vars

(* ---- SpecWrap: one file of one line, over all short lines and widths ---- *)
WrapLines ==
  {Str(cs) : cs \in UNION {[1..n -> {" ", "a"}] : n \in 1..MaxLineLen}} \cup {LongWord}

WrapWidths == (-1..MaxWidth) \cup {DefaultWidth}

InitWrap ==
  /\ caller = "main"
  /\ argv = NoArgs
  /\ fs \in [{P_a} -> {File(t, TRUE) : t \in WrapLines}]
  /\ scan_order = NameOrder
  /\ script_path = P_opt_script
  /\ font = "cached"
  /\ output_writable = TRUE
  /\ line_width \in WrapWidths
  /\ extensions = None
  /\ exclude = None
  /\ Start

SpecWrap == InitWrap /\ [][Next]_vars

(* ---- SpecCollect: over trees, enumeration orders, exclusions, extension ---- *)
(* ---- lists and the place of the script                                    ---- *)
CandidateFiles == {P_a, P_B, P_notes, P_lib_a, P_src_script}

TreeFile(p) ==
  IF p = P_B THEN File(LongWord, TRUE)
  ELSE IF p = P_notes THEN File(<<>>, FALSE)
  ELSE File(Str(<<"a", "b">>), TRUE)

Rel(path) == [abs |-> FALSE, path |-> path]
Abs(path) == [abs |-> TRUE, path |-> path]

ExcludeArgs ==
  { <<>>,
    <<Rel(<<"a.py">>)>>,
    <<Rel(<<"lib", "..", "a.py">>)>>,
    <<Abs(P_lib_a)>>,
    <<Abs(<<"proj", "lib", "..", "a.py">>)>>,
    <<Rel(<<"B.py">>), Rel(<<".", "src", "pdf-zipper.py">>)>> }

ExtensionArgs ==
  { None,
    Some(<<<<"p", "y">>>>),
    Some(<<<<" ", ".", "t", "x", "t">>, <<"p", "y", " ">>>>) }

ExcludeParams == {None, Some(<<>>), Some(<<P_a>>), Some(<<P_src_script, P_lib_a>>)}

ExtensionParams == {None, Some(<<<<".", "p", "y">>>>), Some(<<<<".", "t", "x", "t">>, <<"y">>>>)}

InitCollect ==
  /\ caller \in {"main", "api"}
  /\ script_path \in {P_src_script, P_opt_script}
  /\ \E files \in SUBSET CandidateFiles :
       /\ script_path = P_src_script => P_src_script \in files
       /\ fs = [p \in files |-> TreeFile(p)]
  /\ scan_order \in {NameOrder, Reverse(NameOrder)}
  /\ font = "cached"
  /\ output_writable = TRUE
  /\ line_width = DefaultWidth
  /\ IF caller = "main"
     THEN /\ \E x \in ExcludeArgs, e \in ExtensionArgs :
               argv = [isdir |-> TRUE, exclude |-> x, extensions |-> e]
          /\ extensions = None
          /\ exclude = None
     ELSE /\ argv = NoArgs
          /\ extensions \in ExtensionParams
          /\ exclude \in ExcludeParams
  /\ Start

SpecCollect == InitCollect /\ [][Next]_vars

(***************************************************************************)
(* What the claims speak of                                                *)
(***************************************************************************)
Reported == InList(Msg("Successfully processed", <<>>), log)
SaveFailed == InList(Msg("Error saving PDF", <<>>), log)
Collected == InList(Msg("Found files to process", <<>>), log)
LoopDone == pc \in {"output", "return", "exit"} /\ Collected

Entries == 1..Len(files_to_process)
Failed(k) == InList(Msg("Error processing", files_to_process[k].relative_path), log)
FailedEntries == {k \in Entries : Failed(k)}

RowsOf(k) == SelectSeq(rows, LAMBDA r : r.entry = k /\ r.kind # "summary")
TextRowsOf(k) == SelectSeq(rows, LAMBDA r : r.entry = k /\ r.kind \in {"line", "continuation"})
Headers == SelectSeq(rows, LAMBDA r : r.kind = "header")
\* The block of entry k was written to its end.
Written(k) == \E j \in 1..Len(rows) : rows[j].kind = "spacer" /\ rows[j].entry = k

\* The text without its spaces and newlines.
RECURSIVE Squeeze(_)
Squeeze(t) ==
  IF t = <<>> THEN <<>>
  ELSE IF t[1].c \in {" ", "\n"} THEN Squeeze(Tail(t))
  ELSE TCat(<<t[1]>>, Squeeze(Tail(t)))

RECURSIVE JoinRows(_)
JoinRows(rs) == IF rs = <<>> THEN <<>> ELSE TCat(rs[1].text, JoinRows(Tail(rs)))

IsPrefix(a, b) == TTake(b, TLen(a)) = a

Content(k) == fs[files_to_process[k].full_path].code
IsLarge(k) == TLen(Content(k)) > TruncateThreshold

\* The traversal that visits the files and the subdirectories of every directory
\* in name-sorted order.
RECURSIVE SortedWalk(_, _)
SortedWalk(stack, acc) ==
  IF stack = <<>> THEN acc
  ELSE LET root == Head(stack)
           dirs == Sorted(DirsIn(root))
       IN  SortedWalk([k \in 1..Len(dirs) |-> Append(root, dirs[k])] \o Tail(stack),
                      CollectFiles(Sorted(FilesIn(root)), root, extensions.list,
                                   exclude.list, acc))

(***************************************************************************)
(* The claims                                                              *)
(***************************************************************************)

\* C1: when writing the document to the output path fails, the run is not
\* reported as a success and the process exits with code 1.
C1_OutputFailureIsFatal ==
  (pc = "exit" /\ SaveFailed) => (exit_code = 1 /\ ~Reported)

\* C2: an entry whose read or write raises is logged, adds one to skipped_files
\* and the loop goes on with the next entry; after the loop the processed and
\* the failed entries add up to the collected ones.
C2_FailedEntryIsSkippedAndCounted ==
  [][ /\ pc = "except" =>
           /\ skipped_files' = skipped_files + 1
           /\ Failed(file_index)'
           /\ file_index' = file_index + 1
           /\ pc' = "loop"
      /\ pc' = "output" =>
           processed_files' + Cardinality(FailedEntries') = Len(files_to_process') ]_vars

\* C3: a max line width of 0 or less is fatal: the run exits with code 1 and
\* leaves no document.
C3_InvalidWidthIsFatal ==
  (line_width <= 0 /\ pc = "exit") => (exit_code = 1 /\ ~saved)

\* C4: for every width >= 1 every chunk that wrapping returns, continuation
\* chunks with their indent included, is at most width long; 300 characters
\* without whitespace give chunks of 110, 110 and 80 characters at width 110.
C4_EveryChunkFitsTheWidth ==
  /\ line_width >= 1 =>
       \A k \in 1..Len(wrapped_lines) : TLen(wrapped_lines[k]) <= line_width
  /\ (pc = "emit" /\ Head(lines) = LongWord /\ line_width = DefaultWidth) =>
       [k \in 1..Len(wrapped_lines) |-> TLen(wrapped_lines[k])] = <<110, 110, 80>>

\* C5: the collected list is the one of the traversal that visits subdirectories
\* and files in name-sorted order, whatever the enumeration order of the file
\* system.
C5_NameSortedTraversal ==
  Collected =>
    files_to_process = SortedWalk(<<directory>>, [entries |-> <<>>, skipped |-> 0]).entries

\* C6, as stated: a processed file of more than 100,000 characters has the
\* literal marker row after the rows of its first 50,000 characters, and a
\* processed file of at most 100,000 characters has all its characters emitted
\* and no marker row.
C6_LiteralMarkerRow ==
  \A k \in Entries : Written(k) =>
    LET texts == TextRowsOf(k)
    IN  IF IsLarge(k)
        THEN /\ texts # <<>>
             /\ texts[Len(texts)].text = MarkerLine
             /\ Squeeze(JoinRows(SubSeq(texts, 1, Len(texts) - 1)))
                  = Squeeze(TTake(Content(k), TruncateKeep))
        ELSE Squeeze(JoinRows(texts)) = Squeeze(Content(k))

\* C6, amended: the rows of an entry carry, blanks aside, a prefix of the first
\* 50,000 characters followed by the marker when the file is longer than 100,000
\* characters, and a prefix of the whole content otherwise; all of it once the
\* block is written to its end.  The marker is one literal row when it fits the
\* max line width, and is wrapped like any other line when it does not.
C6_TruncationToKeptPrefixAndMarker ==
  \A k \in Entries :
    LET texts == TextRowsOf(k)
        emitted == Squeeze(JoinRows(texts))
        expected == IF IsLarge(k)
                    THEN TCat(Squeeze(TTake(Content(k), TruncateKeep)), Squeeze(MarkerLine))
                    ELSE Squeeze(Content(k))
    IN  /\ IsPrefix(emitted, expected)
        /\ Written(k) => emitted = expected
        /\ (Written(k) /\ IsLarge(k) /\ line_width >= TLen(MarkerLine)) =>
             texts[Len(texts)].text = MarkerLine
        /\ (Written(k) /\ IsLarge(k) /\ line_width < TLen(MarkerLine)) =>
             \A j \in 1..Len(texts) : texts[j].text # MarkerLine

\* C6 witness: a file longer than the threshold was written to its end at a
\* width the marker does not fit.
C6_Witness ==
  \E k \in Entries :
    /\ Written(k) /\ IsLarge(k)
    /\ line_width >= 1 /\ line_width < TLen(MarkerLine)
    /\ "b" \in CharsOf(TDrop(Content(k), TruncateKeep))

\* C7: after the traversal no collected entry is a member of the exclusion
\* list, and every file of the tree that matches an extension and is not a
\* member of the exclusion list is collected.
C7_ExclusionCorrectness ==
  Collected =>
    /\ \A k \in Entries : ~InList(files_to_process[k].full_path, exclude.list)
    /\ \A p \in DOMAIN fs :
         (IsBelow(p, directory) /\ MatchesExtension(p[Len(p)], extensions.list)
            /\ ~InList(p, exclude.list))
         => \E k \in Entries : files_to_process[k].full_path = p

\* C7 witness: a file with an allowed extension was left out because the
\* caller excluded it, and another one was collected.
C7_Witness ==
  /\ Collected
  /\ files_to_process # <<>>
  /\ \E p \in DOMAIN fs :
       /\ p # script_path
       /\ MatchesExtension(p[Len(p)], extensions.list)
       /\ InList(p, exclude.list)

\* C8: from the traversal on, the exclusion list holds the path of the script,
\* the script is not among the collected entries, and no block of the document
\* is the script's.
C8_SelfExclusion ==
  pc \notin {"main", "convert"} =>
    /\ InList(script_path, exclude.list)
    /\ \A k \in Entries : files_to_process[k].full_path # script_path
    /\ \A j \in 1..Len(rows) :
         rows[j].kind = "header" => files_to_process[rows[j].entry].full_path # script_path

\* C8 witness: the script lies in the tree with an allowed extension, the caller
\* gave no exclusions, and the traversal is over with other files collected.
C8_Witness ==
  /\ Collected
  /\ caller = "api"
  /\ script_path \in DOMAIN fs
  /\ MatchesExtension(script_path[Len(script_path)], extensions.list)
  /\ files_to_process # <<>>
  /\ rows # <<>>

\* C9: every file header is drawn at y <= page height - 40; write_file starts a
\* new page first exactly when the cursor is below that line, and draws the
\* header at the cursor otherwise.
C9_HeaderLookAhead ==
  /\ [](\A j \in 1..Len(rows) :
          rows[j].kind = "header" => rows[j].y <= PageHeight - PageBreakLookahead)
  /\ [][pc = "write_file" =>
          LET header == rows'[Len(rows')]
          IN  /\ header.kind = "header"
              /\ IF y > PageHeight - PageBreakLookahead
                 THEN header.page = page + 1 /\ header.y = Margin
                 ELSE header.page = page /\ header.y = y]_vars

\* C9 witness: a header opens a page that write_file started, and an earlier
\* header of the same run was drawn at the cursor without a page break.
C9_Witness ==
  \E i, j \in 1..Len(rows) :
    /\ i < j
    /\ rows[i].kind = "header" /\ rows[i].page = 1 /\ rows[i].y > Margin
    /\ rows[j].kind = "header" /\ rows[j].page = 2 /\ rows[j].y = Margin

\* C10: after the loop the document holds no row of an entry whose processing
\* raised, and as many file headers as processed_files.
C10_FailedEntriesLeaveNoRows ==
  LoopDone =>
    /\ \A k \in FailedEntries : RowsOf(k) = <<>>
    /\ Len(Headers) = processed_files

====
